---- MODULE Spec2Model ----
(***************************************************************************)
(* PancakeSwap monitor (src/pancakeswap/monitor.py): PCSMonitor loads or   *)
(* bootstraps a local token database, then polls the token API forever,    *)
(* reports tokens it has not seen and rewrites the database file.          *)
(*                                                                         *)
(* Time.  Server timestamps (updated_at) are integers in milliseconds.     *)
(* time.time() is modelled as a whole number of seconds.  Sleep durations  *)
(* are kept in milliseconds so that the fractional part of                 *)
(* API_UPDATE_INTERVAL - time.time() + server_time/1000 is not lost.       *)
(***************************************************************************)
EXTENDS Integers, Sequences, FiniteSets, TLC

\* ---------------------------------------------------------------- bounds
NumTokens == 2
MaxTick == 3
MaxFails == 2

\* ------------------------------------------------------ program constants
API_UPDATE_INTERVAL == 300
StaleThreshold == 86400000
MsPerSecond == 1000
ErrorSleep == 1
ClampSleep == 1
ForceSleep == 10

\* ------------------------------------------------------------ value sets
TokenNames == <<"A", "B", "C", "D">>
Tokens == {TokenNames[i] : i \in 1..NumTokens}
ServerTimes == {MsPerSecond * k : k \in 1..MaxTick}
\* readings of time.time(): early ones (the wait of start_monitor can be
\* positive, zero or negative, updated_at can be ahead of the clock) and a
\* late one (a file can be stale or not)
ClockValues == {2, API_UPDATE_INTERVAL + 2, StaleThreshold + 2500}

Range(s) == {s[i] : i \in 1..Len(s)}
\* list(a_set): the elements once each, in any order
Perms(S) == {s \in [1..Cardinality(S) -> S] : Range(s) = S}

NoFile == [kind |-> "absent", updated_at |-> 0, data |-> <<>>]
CorruptFile == [kind |-> "corrupt", updated_at |-> 0, data |-> <<>>]
JsonFile(t, s) == [kind |-> "json", updated_at |-> t, data |-> s]
Files == {NoFile, CorruptFile}
         \cup {JsonFile(t, s) : t \in ServerTimes,
                                s \in UNION {Perms(S) : S \in SUBSET Tokens}}

NoData == [kind |-> "none", updated_at |-> 0, keys |-> {}]
Snapshot(t, K) == [kind |-> "ok", updated_at |-> t, keys |-> K]
Failure(e) == [kind |-> e, updated_at |-> 0, keys |-> {}]
\* what PancakeSwapAPI.tokens() can do, as seen by _request_data
Responses == {Failure("ConnectionError"), Failure("HTTPError")}
             \cup {Snapshot(t, K) : t \in ServerTimes, K \in SUBSET Tokens}

NoSleep == 0 - 1
NoPre == [set |-> FALSE, saved |-> 0, known |-> {}, file |-> NoFile,
          users |-> [k \in Tokens |-> 0]]

VARIABLES
  pc,                   \* position in start_monitor and its callees
  ret,                  \* continuations of the pending _save_to_local_database
  file,                 \* content of LOCAL_DATABASE_FILE
  now,                  \* latest reading of time.time(), seconds
  prev_server_time,     \* self._prev_server_time
  has_saved,            \* self._saved_token_time / _address are assigned
  saved_token_time,     \* self._saved_token_time
  saved_token_address,  \* self._saved_token_address
  loaded,               \* data of _read_local_database (the parsed file)
  data,                 \* data of _force_update_local_database / start_monitor
  pending,              \* keys _get_new_tokens has still to visit
  newly_added_tokens,   \* newly_added_tokens of _get_new_tokens
  sleeping,             \* argument of the time.sleep in progress (t_minus at
                        \* line 39), milliseconds
  fails,                \* failed _request_data calls since the latest
                        \* successful one of the loop
  requested,            \* _request_data has been called
  users,                \* send_message_to_users calls of the run, per token
  admins,               \* send_message_to_admin calls of the initiation or
                        \* of the current loop iteration
  writes,               \* writes of LOCAL_DATABASE_FILE, counted likewise
  pre,                  \* state at the _request_data call of this iteration
                        \* (SpecRT: the state handed to the first save)
  bootstrap,            \* <<key set>> seeded by _force_update_local_database
  lastKeys,             \* <<key set>> of the snapshot handled as an update in
                        \* the iteration that has just ended
  repeat,               \* the snapshot of this iteration has that key set
  startKeys             \* key set of LOCAL_DATABASE_FILE when the run started

vars == <<pc, ret, file, now, prev_server_time, has_saved, saved_token_time,
          saved_token_address, loaded, data, pending, newly_added_tokens,
          sleeping, fails, requested, users, admins, writes, pre, bootstrap,
          lastKeys, repeat, startKeys>>

mem == <<has_saved, saved_token_time, saved_token_address>>
iter == <<pending, newly_added_tokens>>
ghost == <<pre, bootstrap, lastKeys, repeat, startKeys>>
sent == <<users, admins>>

Snap == [set |-> TRUE, saved |-> saved_token_time,
         known |-> saved_token_address, file |-> file, users |-> users]

\* --------------------------------------------------------------- helpers
\* slip: the comparison is the wrong way round
IsStaleReversed(clock, server_time) == clock - server_time < StaleThreshold

\* time.time() - server_time > 86400000, seconds minus milliseconds
IsStale(clock, server_time) == clock - server_time > StaleThreshold

\* slip: server_time is not converted to seconds
TMinusNegativeMixedUnits(clock, server_time) ==
  server_time < clock - API_UPDATE_INTERVAL

\* API_UPDATE_INTERVAL - time.time() + server_time/1000 < 0
TMinusNegative(clock, server_time) ==
  (server_time \div MsPerSecond) < clock - API_UPDATE_INTERVAL

\* the value of t_minus handed to time.sleep
TMinus(clock, server_time) ==
  IF TMinusNegative(clock, server_time)
    THEN ClampSleep * MsPerSecond
    ELSE MsPerSecond * (API_UPDATE_INTERVAL - clock) + server_time

\* slip: the identifiers are not written
DumpsNoData(t, S) == {JsonFile(t, <<>>)}

\* json.dump({'updated_at': ..., 'data': list(set)}, open(file, 'w+'))
Dumps(t, S) == {JsonFile(t, s) : s \in Perms(S)}

\* ------------------------------------------------------------------ Init
Init ==
  /\ pc = "start"
  /\ ret = <<>>
  /\ file \in Files
  /\ now = 0
  /\ prev_server_time = 0
  /\ has_saved = FALSE
  /\ saved_token_time = 0
  /\ saved_token_address = {}
  /\ loaded = NoFile
  /\ data = NoData
  /\ pending = {}
  /\ newly_added_tokens = <<>>
  /\ sleeping = NoSleep
  /\ fails = 0
  /\ requested = FALSE
  /\ users = [k \in Tokens |-> 0]
  /\ admins = 0
  /\ writes = 0
  /\ pre = NoPre
  /\ bootstrap = <<>>
  /\ lastKeys = <<>>
  /\ repeat = FALSE
  /\ startKeys = IF file.kind = "json" THEN Range(file.data) ELSE {}

\* ------------------------------------------------------- _initiate_monitor
InitiateMonitor ==
  /\ pc = "start"
  /\ IF file.kind # "absent"
       THEN pc' = "read_db" /\ ret' = ret
       ELSE pc' = "force_request" /\ ret' = <<"initiated">>
  /\ UNCHANGED <<file, now, prev_server_time, mem, loaded, data, iter,
                 sleeping, fails, requested, sent, writes, ghost>>

\* _initiate_monitor returns and the loop of start_monitor is entered
InitiateDone ==
  /\ pc = "initiated"
  /\ pc' = "poll"
  /\ data' = NoData
  /\ loaded' = NoFile
  /\ admins' = 0
  /\ writes' = 0
  /\ fails' = 0
  /\ UNCHANGED <<ret, file, now, prev_server_time, mem, iter, sleeping,
                 requested, users, ghost>>

\* ---------------------------------------------------- _read_local_database
\* slip: an unreadable file is repaired by a forced refresh
ReadLocalDatabaseRepairs ==
  /\ pc = "read_db"
  /\ IF file.kind = "corrupt"
       THEN /\ pc' = "force_request"
            /\ ret' = <<"initiated">>
            /\ UNCHANGED <<now, loaded>>
       ELSE /\ loaded' = file
            /\ \E clock \in ClockValues :
                 /\ clock >= now
                 /\ now' = clock
                 /\ IF IsStale(clock, file.updated_at)
                      THEN pc' = "force_request" /\ ret' = <<"read_assign">>
                      ELSE pc' = "read_assign" /\ ret' = ret
  /\ UNCHANGED <<file, prev_server_time, mem, data, iter, sleeping, fails,
                 requested, sent, writes, ghost>>

\* json.load, the read of the clock and the staleness test
ReadLocalDatabase ==
  /\ pc = "read_db"
  /\ IF file.kind = "corrupt"
       THEN /\ pc' = "crashed"
            /\ UNCHANGED <<ret, now, loaded>>
       ELSE /\ loaded' = file
            /\ \E clock \in ClockValues :
                 /\ clock >= now
                 /\ now' = clock
                 /\ IF IsStale(clock, file.updated_at)
                      THEN pc' = "force_request" /\ ret' = <<"read_assign">>
                      ELSE pc' = "read_assign" /\ ret' = ret
  /\ UNCHANGED <<file, prev_server_time, mem, data, iter, sleeping, fails,
                 requested, sent, writes, ghost>>

\* lines 93-95, reached after the forced refresh as well
ReadAssign ==
  /\ pc = "read_assign"
  /\ has_saved' = TRUE
  /\ saved_token_time' = loaded.updated_at
  /\ saved_token_address' = Range(loaded.data)
  /\ pc' = "initiated"
  /\ UNCHANGED <<ret, file, now, prev_server_time, loaded, data, iter,
                 sleeping, fails, requested, sent, writes, ghost>>

\* -------------------------------------------- _force_update_local_database
\* slip: the bootstrap retries with the 1 s delay of the loop
ForceRequestFailShortSleep ==
  /\ pc = "force_request"
  /\ fails < MaxFails
  /\ \E r \in Responses :
       /\ r.kind # "ok"
       /\ data' = r
  /\ requested' = TRUE
  /\ fails' = fails + 1
  /\ sleeping' = ErrorSleep * MsPerSecond
  /\ pc' = "force_sleep"
  /\ UNCHANGED <<ret, file, now, prev_server_time, mem, loaded, iter, sent,
                 writes, ghost>>

\* _request_data returns None and time.sleep(10) is entered
ForceRequestFail ==
  /\ pc = "force_request"
  /\ fails < MaxFails
  /\ \E r \in Responses :
       /\ r.kind # "ok"
       /\ data' = r
  /\ requested' = TRUE
  /\ fails' = fails + 1
  /\ sleeping' = ForceSleep * MsPerSecond
  /\ pc' = "force_sleep"
  /\ UNCHANGED <<ret, file, now, prev_server_time, mem, loaded, iter, sent,
                 writes, ghost>>

\* time.sleep(10) returns; continue
ForceSleepRetry ==
  /\ pc = "force_sleep"
  /\ sleeping' = NoSleep
  /\ pc' = "force_request"
  /\ UNCHANGED <<ret, file, now, prev_server_time, mem, loaded, data, iter,
                 fails, requested, sent, writes, ghost>>

\* _request_data returns a snapshot; lines 104-105
ForceRequestOk ==
  /\ pc = "force_request"
  /\ \E r \in Responses :
       /\ r.kind = "ok"
       /\ data' = r
       /\ has_saved' = TRUE
       /\ saved_token_time' = r.updated_at
       /\ saved_token_address' = r.keys
       /\ bootstrap' = <<r.keys>>
  /\ requested' = TRUE
  /\ pc' = "save_write"
  /\ UNCHANGED <<ret, file, now, prev_server_time, loaded, iter, sleeping,
                 fails, sent, writes, pre, lastKeys, repeat, startKeys>>

\* ------------------------------------------------- _save_to_local_database
\* slip: the message is sent although nothing was written
SaveWriteSkipped ==
  /\ pc = "save_write"
  /\ pc' = "save_admin"
  /\ UNCHANGED <<ret, file, now, prev_server_time, mem, loaded, data, iter,
                 sleeping, fails, requested, sent, writes, ghost>>

SaveWrite ==
  /\ pc = "save_write"
  /\ file' \in Dumps(saved_token_time, saved_token_address)
  /\ writes' = writes + 1
  /\ pc' = "save_admin"
  /\ UNCHANGED <<ret, now, prev_server_time, mem, loaded, data, iter,
                 sleeping, fails, requested, sent, ghost>>

SaveAdmin ==
  /\ pc = "save_admin"
  /\ admins' = admins + 1
  /\ pc' = Head(ret)
  /\ ret' = Tail(ret)
  /\ UNCHANGED <<file, now, prev_server_time, mem, loaded, data, iter,
                 sleeping, fails, requested, users, writes, ghost>>

\* ------------------------------------------------------------ start_monitor
\* _request_data returns None and time.sleep(1) is entered
RequestDataFail ==
  /\ pc = "poll"
  /\ fails < MaxFails
  /\ \E r \in Responses :
       /\ r.kind # "ok"
       /\ data' = r
  /\ pre' = Snap
  /\ lastKeys' = <<>>
  /\ requested' = TRUE
  /\ fails' = fails + 1
  /\ sleeping' = ErrorSleep * MsPerSecond
  /\ pc' = "sleep_err"
  /\ UNCHANGED <<ret, file, now, prev_server_time, mem, loaded, iter, sent,
                 writes, bootstrap, repeat, startKeys>>

\* slip: a failed fetch ends the run instead of being retried
SleepOnErrorEscalates ==
  /\ pc = "sleep_err"
  /\ pc' = "crashed"
  /\ UNCHANGED <<ret, file, now, prev_server_time, mem, loaded, data, iter,
                 sleeping, fails, requested, sent, writes, ghost>>

\* time.sleep(1) returns; continue
SleepOnError ==
  /\ pc = "sleep_err"
  /\ sleeping' = NoSleep
  /\ pc' = "poll"
  /\ data' = NoData
  /\ pre' = NoPre
  /\ UNCHANGED <<ret, file, now, prev_server_time, mem, loaded, iter, fails,
                 requested, sent, writes, bootstrap, lastKeys, repeat,
                 startKeys>>

RequestDataOk ==
  /\ pc = "poll"
  /\ \E r \in Responses :
       /\ r.kind = "ok"
       /\ data' = r
       /\ repeat' = (lastKeys = <<r.keys>>)
  /\ pre' = Snap
  /\ lastKeys' = <<>>
  /\ requested' = TRUE
  /\ fails' = 0
  /\ pc' = "compare"
  /\ UNCHANGED <<ret, file, now, prev_server_time, mem, loaded, iter,
                 sleeping, sent, writes, bootstrap, startKeys>>

\* slip: the fetched time is taken in seconds, the recorded one in ms
IsNotNewerSeconds(server_time, prev) == server_time \div MsPerSecond <= prev

\* server_time <= self._prev_server_time
IsNotNewer(server_time, prev) == server_time <= prev

\* lines 32-43: either t_minus is computed and time.sleep(t_minus) entered,
\* or _prev_server_time is assigned and _get_new_tokens entered
CompareServerTime ==
  /\ pc = "compare"
  /\ IF IsNotNewer(data.updated_at, prev_server_time)
       THEN /\ \E clock \in ClockValues :
                 /\ clock >= now
                 /\ now' = clock
                 /\ sleeping' = TMinus(clock, data.updated_at)
            /\ pc' = "sleep_wait"
            /\ UNCHANGED <<prev_server_time, pending, newly_added_tokens>>
       ELSE /\ prev_server_time' = data.updated_at
            /\ pending' = data.keys
            /\ newly_added_tokens' = <<>>
            /\ pc' = "get_new"
            /\ UNCHANGED <<now, sleeping>>
  /\ UNCHANGED <<ret, file, mem, loaded, data, fails, requested, sent, writes,
                 ghost>>

\* time.sleep(t_minus) returns; continue
SleepWait ==
  /\ pc = "sleep_wait"
  /\ sleeping' = NoSleep
  /\ pc' = "poll"
  /\ data' = NoData
  /\ pre' = NoPre
  /\ repeat' = FALSE
  /\ UNCHANGED <<ret, file, now, prev_server_time, mem, loaded, iter, fails,
                 requested, sent, writes, bootstrap, lastKeys, startKeys>>

\* ---------------------------------------------------------- _get_new_tokens
\* slip: every key of the snapshot is taken as new
IsNewTokenAlways(k, known) == TRUE

\* new_token_key not in self._saved_token_address
IsNewToken(k, known) == k \notin known

\* slip: a new key is collected without send_message_to_users
GetNewTokensStepSilent ==
  /\ pc = "get_new"
  /\ \E k \in pending :
       /\ pending' = pending \ {k}
       /\ IF IsNewToken(k, saved_token_address)
            THEN /\ users' = users
                 /\ newly_added_tokens' = Append(newly_added_tokens, k)
            ELSE UNCHANGED <<users, newly_added_tokens>>
  /\ UNCHANGED <<pc, ret, file, now, prev_server_time, mem, loaded, data,
                 sleeping, fails, requested, admins, writes, ghost>>

\* one turn of the for loop, in any order of the keys
GetNewTokensStep ==
  /\ pc = "get_new"
  /\ \E k \in pending :
       /\ pending' = pending \ {k}
       /\ IF IsNewToken(k, saved_token_address)
            THEN /\ users' = [users EXCEPT ![k] = @ + 1]
                 /\ newly_added_tokens' = Append(newly_added_tokens, k)
            ELSE UNCHANGED <<users, newly_added_tokens>>
  /\ UNCHANGED <<pc, ret, file, now, prev_server_time, mem, loaded, data,
                 sleeping, fails, requested, admins, writes, ghost>>

GetNewTokensReturn ==
  /\ pc = "get_new"
  /\ pending = {}
  /\ pc' = "handle"
  /\ UNCHANGED <<ret, file, now, prev_server_time, mem, loaded, data, iter,
                 sleeping, fails, requested, sent, writes, ghost>>

\* ------------------------------------------------------- _handle_new_tokens
\* slip: the new tokens are reported but not merged
MergedNothing(known, tokens) == known

\* slip: the set is assigned from the new tokens instead of updated
MergedReplaces(known, tokens) ==
  IF tokens # <<>> THEN Range(tokens) ELSE known

\* self._saved_token_address after "if tokens: ....update(tokens)"
Merged(known, tokens) ==
  IF tokens # <<>> THEN known \cup Range(tokens) ELSE known

\* lines 81-85, up to the call of _save_to_local_database
HandleNewTokens ==
  /\ pc = "handle"
  /\ saved_token_address' = Merged(saved_token_address, newly_added_tokens)
  /\ saved_token_time' = data.updated_at
  /\ pc' = "save_write"
  /\ ret' = <<"cycle_end">>
  /\ UNCHANGED <<file, now, prev_server_time, has_saved, loaded, data, iter,
                 sleeping, fails, requested, sent, writes, ghost>>

\* slip: _initiate_monitor is called inside the while loop
LoopBackReinitiates ==
  /\ pc = "cycle_end"
  /\ pc' = "start"
  /\ lastKeys' = <<data.keys>>
  /\ repeat' = FALSE
  /\ data' = NoData
  /\ newly_added_tokens' = <<>>
  /\ pre' = NoPre
  /\ admins' = 0
  /\ writes' = 0
  /\ UNCHANGED <<ret, file, now, prev_server_time, mem, loaded, pending,
                 sleeping, fails, requested, users, bootstrap,
                 startKeys>>

\* _handle_new_tokens has returned; back to the head of the while loop
LoopBack ==
  /\ pc = "cycle_end"
  /\ pc' = "poll"
  /\ lastKeys' = <<data.keys>>
  /\ repeat' = FALSE
  /\ data' = NoData
  /\ newly_added_tokens' = <<>>
  /\ pre' = NoPre
  /\ admins' = 0
  /\ writes' = 0
  /\ UNCHANGED <<ret, file, now, prev_server_time, mem, loaded, pending,
                 sleeping, fails, requested, users, bootstrap,
                 startKeys>>

\* -------------------------------------------------------------------- Spec
Next ==
  \/ InitiateMonitor
  \/ ReadLocalDatabase
  \/ ReadAssign
  \/ ForceRequestFail
  \/ ForceSleepRetry
  \/ ForceRequestOk
  \/ InitiateDone
  \/ SaveWrite
  \/ SaveAdmin
  \/ RequestDataFail
  \/ SleepOnError
  \/ RequestDataOk
  \/ CompareServerTime
  \/ SleepWait
  \/ GetNewTokensStep
  \/ GetNewTokensReturn
  \/ HandleNewTokens
  \/ LoopBack

Spec == Init /\ [][Next]_vars

\* a first run, started with no LOCAL_DATABASE_FILE, with the scheduling a
\* single thread has: it takes its next step whenever it has one;
\* _initiate_monitor takes the forced refresh and never reads the file
InitFirstRun == Init /\ file = NoFile

NextFirstRun ==
  \/ InitiateMonitor
  \/ ForceRequestFail
  \/ ForceSleepRetry
  \/ ForceRequestOk
  \/ InitiateDone
  \/ SaveWrite
  \/ SaveAdmin
  \/ RequestDataFail
  \/ SleepOnError
  \/ RequestDataOk
  \/ CompareServerTime
  \/ SleepWait
  \/ GetNewTokensStep
  \/ GetNewTokensReturn
  \/ HandleNewTokens
  \/ LoopBack

SpecFirstRun ==
  InitFirstRun /\ [][NextFirstRun]_vars /\ WF_vars(NextFirstRun)

\* the initiation alone, with the scheduling the code has: it never stops
\* by itself, and a server that keeps being asked eventually answers
NextInit ==
  \/ InitiateMonitor
  \/ ReadLocalDatabase
  \/ ReadAssign
  \/ ForceRequestFail
  \/ ForceSleepRetry
  \/ ForceRequestOk
  \/ SaveWrite
  \/ SaveAdmin

SpecInit ==
  Init /\ [][NextInit]_vars /\ WF_vars(NextInit) /\ SF_vars(ForceRequestOk)

\* round trip through the file: _save_to_local_database once or twice on an
\* arbitrary local state and an arbitrary earlier file, then
\* _read_local_database
InitRT ==
  /\ pc = "save_write"
  /\ ret \in {<<"read_db">>, <<"save_write", "read_db">>}
  /\ file \in Files
  /\ now = 0
  /\ prev_server_time = 0
  /\ has_saved = TRUE
  /\ saved_token_time \in ServerTimes
  /\ saved_token_address \in SUBSET Tokens
  /\ loaded = NoFile
  /\ data = NoData
  /\ pending = {}
  /\ newly_added_tokens = <<>>
  /\ sleeping = NoSleep
  /\ fails = 0
  /\ requested = FALSE
  /\ users = [k \in Tokens |-> 0]
  /\ admins = 0
  /\ writes = 0
  /\ pre = Snap
  /\ bootstrap = <<>>
  /\ lastKeys = <<>>
  /\ repeat = FALSE
  /\ startKeys = IF file.kind = "json" THEN Range(file.data) ELSE {}

NextRT ==
  \/ SaveWrite
  \/ SaveAdmin
  \/ ReadLocalDatabase
  \/ ReadAssign

SpecRT == InitRT /\ [][NextRT]_vars

TypeOK ==
  /\ pc \in {"start", "read_db", "read_assign", "force_request",
             "force_sleep", "initiated", "save_write", "save_admin", "poll",
             "sleep_err", "compare", "sleep_wait", "get_new", "handle",
             "cycle_end", "crashed"}
  /\ file \in Files
  /\ saved_token_address \subseteq Tokens
  /\ prev_server_time \in ServerTimes \cup {0}

\* ================================================================== claims
InLoopBody == pre.set /\ data.kind = "ok"
NoUserMessage == \A k \in Tokens : users[k] = 0
StalePath == loaded.kind = "json" /\ IsStale(now, loaded.updated_at)

\* C1 (as stated): in an iteration of the loop of start_monitor whose
\* fetched updated_at is <= the recorded saved_time, the first iteration
\* included, the loop goes to its sleep and changes neither known_tokens
\* nor saved_time, sends no user notification and does not write the file.
C1_NoRedundantProcessing ==
  (InLoopBody /\ data.updated_at <= pre.saved) =>
    /\ pc \in {"compare", "sleep_wait"}
    /\ saved_token_address = pre.known
    /\ saved_token_time = pre.saved
    /\ users = pre.users
    /\ file = pre.file
    /\ writes = 0

\* C2 (as stated): when _initiate_monitor returns after loading a stale
\* file, a forced full refresh has run and saved_time and known_tokens are
\* the updated_at and the key set of the snapshot it fetched.
C2_StalenessTriggersRebuild ==
  (pc = "initiated" /\ StalePath) =>
    /\ bootstrap # <<>>
    /\ data.kind = "ok"
    /\ saved_token_time = data.updated_at
    /\ saved_token_address = data.keys

\* C3 (as stated): once a forced full refresh has seeded from a snapshot,
\* every key of that snapshot is in known_tokens and no user notification
\* is ever sent for it, during the initiation or in any later iteration.
C3_BootstrapSeedsNotReports ==
  bootstrap # <<>> =>
    \A k \in bootstrap[1] : k \in saved_token_address /\ users[k] = 0

\* positions of an iteration from the return of _get_new_tokens on
AfterDiff ==
  pre.set /\ pc \in {"handle", "save_write", "save_admin", "cycle_end"}

\* C4: for a snapshot handled as an update, the list returned by
\* _get_new_tokens holds exactly the keys of the snapshot that were not in
\* known_tokens before the iteration, each once; the iteration sends one
\* user notification for each of them and none for any other token; and a
\* snapshot with the key set of the snapshot handled just before yields an
\* empty list and no user notification.
C4_DiffCorrectness ==
  AfterDiff =>
    /\ Range(newly_added_tokens) = data.keys \ pre.known
    /\ Len(newly_added_tokens) = Cardinality(data.keys \ pre.known)
    /\ \A k \in Tokens :
         users[k] = pre.users[k] + (IF k \in data.keys \ pre.known THEN 1
                                                                  ELSE 0)
    /\ repeat => newly_added_tokens = <<>> /\ users = pre.users

C4_Witness ==
  /\ pc = "handle"
  /\ prev_server_time > pre.saved
  /\ pre.known # {}
  /\ newly_added_tokens # <<>>
  /\ data.keys \cap pre.known # {}

C4_WitnessRepeat ==
  pc = "handle" /\ repeat /\ data.keys # {}

\* C5: an iteration whose fetched updated_at is greater than saved_time is
\* handled as an update, and when it ends saved_time is the fetched
\* updated_at, known_tokens is the earlier known_tokens united with the
\* keys of the snapshot, the file holds that saved_time and that set, the
\* file was written once and one admin notification was sent, whether or
\* not a new token was found.
C5_CycleEffect ==
  (InLoopBody /\ data.updated_at > pre.saved) =>
    /\ pc \in {"compare", "get_new", "handle", "save_write", "save_admin",
               "cycle_end"}
    /\ pc = "cycle_end" =>
         /\ saved_token_time = data.updated_at
         /\ saved_token_address = pre.known \cup data.keys
         /\ file.kind = "json"
         /\ file.updated_at = data.updated_at
         /\ Range(file.data) = pre.known \cup data.keys
         /\ Len(file.data) = Cardinality(pre.known \cup data.keys)
         /\ writes = 1
         /\ admins = 1

C5_Witness ==
  /\ pc = "cycle_end"
  /\ pre.set
  /\ data.updated_at > pre.saved
  /\ newly_added_tokens = <<>>
  /\ pre.known # {}
  /\ file # pre.file

C5_WitnessDelta ==
  /\ pc = "cycle_end"
  /\ pre.set
  /\ data.updated_at > pre.saved
  /\ newly_added_tokens # <<>>
  /\ pre.known # {}

FetchErrors == {"ConnectionError", "HTTPError"}

\* C6: a failed fetch of the loop of start_monitor leads to time.sleep(1)
\* and then to the next fetch; saved_time, known_tokens and the file stay
\* as they were and no user or admin notification is sent; after any
\* number of consecutive failures the loop is still able to fetch.
C6_FetchErrorsRecovered ==
  /\ [][(pc = "poll" /\ data'.kind \in FetchErrors) =>
          (pc' = "sleep_err" /\ UNCHANGED <<mem, file, sent, writes>>)]_vars
  /\ [](pc = "sleep_err" =>
          /\ data.kind \in FetchErrors
          /\ sleeping = 1000
          /\ Snap = pre
          /\ admins = 0
          /\ writes = 0)
  /\ [][pc = "sleep_err" =>
          /\ pc' = "poll"
          /\ UNCHANGED <<mem, file, sent, writes, fails>>]_vars
  /\ [](pc = "poll" => ENABLED RequestDataOk)

C6_Witness ==
  /\ pc = "poll"
  /\ fails = MaxFails
  /\ prev_server_time > 0

RefreshRetrying == pc \in {"force_request", "force_sleep"}
RefreshCompleted ==
  /\ bootstrap # <<>>
  /\ \/ pc = "read_assign"
     \/ pc = "initiated" /\ loaded.kind = "absent"

\* C7: in a forced full refresh a failed fetch leads to time.sleep(10) and
\* then to the next fetch; until a fetch succeeds nothing is assigned to
\* saved_time or known_tokens and the file is not written; and, if the
\* server eventually answers, the refresh completes, at which point
\* known_tokens is the key set of the snapshot, saved_time its updated_at
\* and the file holds both, before the loop of start_monitor has started.
C7_BootstrapRetry ==
  /\ [][(pc = "force_request" /\ data'.kind \in FetchErrors) =>
          (pc' = "force_sleep" /\ UNCHANGED <<mem, file, writes>>)]_vars
  /\ [][pc = "force_sleep" =>
          (pc' = "force_request" /\ UNCHANGED <<mem, file, writes>>)]_vars
  /\ [](pc = "force_sleep" => sleeping = 10000)
  /\ [](RefreshRetrying =>
          ~has_saved /\ file = loaded /\ writes = 0 /\ admins = 0)
  /\ [](RefreshCompleted =>
          /\ saved_token_address = data.keys
          /\ saved_token_time = data.updated_at
          /\ file.kind = "json"
          /\ file.updated_at = data.updated_at
          /\ Range(file.data) = data.keys
          /\ Len(file.data) = Cardinality(data.keys)
          /\ prev_server_time = 0
          /\ pre = NoPre)
  /\ (RefreshRetrying ~> RefreshCompleted)

C7_Witness ==
  /\ RefreshCompleted
  /\ fails = MaxFails
  /\ loaded.kind = "json"
  /\ data.keys # {}

\* C8: after _save_to_local_database has run once or twice on a local
\* state, the file holds the saved_time of that state and a list with each
\* identifier of its set once and nothing else, whatever the file held
\* before; and _read_local_database, when the file is not stale, then
\* leaves that saved_time and that set in memory.
C8_PersistenceRoundTrip ==
  /\ writes >= 1 =>
       /\ file.kind = "json"
       /\ file.updated_at = pre.saved
       /\ Range(file.data) = pre.known
       /\ Len(file.data) = Cardinality(pre.known)
  /\ pc = "initiated" =>
       /\ writes \in {1, 2}
       /\ saved_token_time = pre.saved
       /\ saved_token_address = pre.known

C8_Witness ==
  /\ pc = "initiated"
  /\ writes = 2
  /\ Cardinality(saved_token_address) >= 2
  /\ pre.file.kind = "json"
  /\ Range(pre.file.data) # saved_token_address
  /\ pre.file.updated_at # saved_token_time
  /\ loaded.data # pre.file.data

\* C9: with a file that cannot be parsed the run ends in
\* _read_local_database: nothing was fetched, no forced refresh ran, the
\* file is as it was, no notification was sent, and no further step is
\* taken, so the loop of start_monitor is never entered.
C9_CorruptIsFatal ==
  /\ [][(pc = "start" /\ file.kind = "corrupt") => pc' = "read_db"]_vars
  /\ [][(pc = "read_db" /\ file.kind = "corrupt") => pc' = "crashed"]_vars
  /\ [](pc = "crashed" =>
          /\ file = CorruptFile
          /\ ~requested
          /\ bootstrap = <<>>
          /\ ~has_saved
          /\ writes = 0
          /\ admins = 0
          /\ NoUserMessage)
  /\ [][pc # "crashed"]_vars

C9_Witness == pc = "crashed" /\ file.kind = "corrupt"

\* C10: the duration handed to time.sleep when the fetched updated_at is
\* not newer is 300 s minus (now minus updated_at), or 1 s when that is
\* negative; it is never negative, also when updated_at is ahead of now.
\* Milliseconds; a clock beyond 300 s plus the largest updated_at makes the
\* difference negative without computing it.
C10_WaitDuration ==
  /\ [](pc = "sleep_wait" =>
          /\ sleeping >= 0
          /\ IF now > 300 + MaxTick
               THEN sleeping = 1000
               ELSE LET wait == 300000 - (1000 * now - data.updated_at)
                    IN  sleeping = IF wait < 0 THEN 1000 ELSE wait)
  /\ [][pc = "sleep_wait" => pc' = "poll"]_vars

C10_Witness ==
  /\ pc = "sleep_wait"
  /\ now < 300
  /\ data.updated_at > 1000 * now
  /\ sleeping > 300000

C10_WitnessClamped ==
  /\ pc = "sleep_wait"
  /\ now = 302
  /\ data.updated_at = 1000
  /\ sleeping = 1000

C10_WitnessZero == pc = "sleep_wait" /\ sleeping = 0

\* positions of start_monitor before and after _initiate_monitor returns
SavePcs == {"save_write", "save_admin"}
InInitiation ==
  \/ pc \in {"start", "read_db", "read_assign", "force_request",
             "force_sleep", "initiated"}
  \/ pc \in SavePcs /\ ret # <<"cycle_end">>
InLoop ==
  \/ pc \in {"poll", "sleep_err", "compare", "sleep_wait", "get_new",
             "handle", "cycle_end"}
  \/ pc \in SavePcs /\ ret = <<"cycle_end">>

\* C11: inside an iteration of the loop every user notification is sent
\* while known_tokens and the file are still as they were at the fetch; the
\* admin notification is sent only when the file has been written in this
\* iteration and holds the new saved_time and the merged set; an iteration
\* that does not write the file sends no admin notification.
C11_OrderInCycle ==
  /\ [][(InLoop /\ users' # users) =>
          /\ saved_token_address = pre.known
          /\ saved_token_address' = pre.known
          /\ file = pre.file
          /\ file' = pre.file
          /\ writes = 0
          /\ admins = 0]_vars
  /\ [][(InLoop /\ saved_token_address' # saved_token_address) =>
          (pending = {} /\ writes = 0 /\ admins = 0)]_vars
  /\ [][(InLoop /\ admins' # admins /\ pc' # "poll") =>
          /\ admins' = 1
          /\ writes = 1
          /\ file.kind = "json"
          /\ file.updated_at = data.updated_at
          /\ file.updated_at = saved_token_time
          /\ Range(file.data) = saved_token_address
          /\ Range(file.data) = pre.known \cup Range(newly_added_tokens)]_vars
  /\ [](InLoop => admins <= writes)

C11_Witness ==
  /\ pc = "cycle_end"
  /\ admins = 1
  /\ writes = 1
  /\ newly_added_tokens # <<>>
  /\ pre.known # {}
  /\ file # pre.file

\* the jumps of the loop of start_monitor
LoopEdges ==
  {<<"poll", "sleep_err">>, <<"poll", "compare">>, <<"sleep_err", "poll">>,
   <<"compare", "sleep_wait">>, <<"compare", "get_new">>,
   <<"sleep_wait", "poll">>, <<"get_new", "get_new">>,
   <<"get_new", "handle">>, <<"handle", "save_write">>,
   <<"save_write", "save_admin">>, <<"save_admin", "cycle_end">>,
   <<"cycle_end", "poll">>}
Processing ==
  InLoop /\ pc \in {"get_new", "handle", "save_write", "save_admin",
                    "cycle_end"}

\* steps a processing cycle still has to take before the next fetch
StepsToPoll ==
  CASE pc = "get_new" -> 5 + Cardinality(pending)
    [] pc = "handle" -> 4
    [] pc = "save_write" -> 3
    [] pc = "save_admin" -> 2
    [] pc = "cycle_end" -> 1
    [] OTHER -> 0

\* the step the loop can take at its position
LoopStepEnabled ==
  CASE pc = "poll" -> ENABLED RequestDataOk
    [] pc = "sleep_err" -> ENABLED SleepOnError
    [] pc = "compare" -> ENABLED CompareServerTime
    [] pc = "sleep_wait" -> ENABLED SleepWait
    [] pc = "get_new" -> ENABLED (GetNewTokensStep \/ GetNewTokensReturn)
    [] pc = "handle" -> ENABLED HandleNewTokens
    [] pc = "save_write" -> ENABLED SaveWrite
    [] pc = "save_admin" -> ENABLED SaveAdmin
    [] pc = "cycle_end" -> ENABLED LoopBack
    [] OTHER -> FALSE

\* C12: the run is in the initiation, in the loop or ended by a corrupt
\* file; the initiation sends no user notification and makes no fetch of
\* the loop; it is left once, by the return of _initiate_monitor, and the
\* loop is never left again; the loop moves only between fetching, waiting
\* and processing; every step of a processing cycle brings it closer to
\* the next fetch, and every state of the loop has a next step.
C12_ControlStates ==
  /\ [](InInitiation \/ InLoop \/ pc = "crashed")
  /\ [](InInitiation =>
          NoUserMessage /\ ~pre.set /\ prev_server_time = 0)
  /\ [][(InInitiation /\ ~InInitiation') =>
          \/ pc = "initiated" /\ pc' = "poll" /\ has_saved
          \/ pc = "read_db" /\ pc' = "crashed"]_vars
  /\ [][InLoop => (InLoop' /\ <<pc, pc'>> \in LoopEdges)]_vars
  /\ [][Processing => StepsToPoll' < StepsToPoll]_vars
  /\ [](InLoop => LoopStepEnabled)

C12_Witness ==
  /\ pc = "poll"
  /\ lastKeys # <<>>
  /\ prev_server_time = MsPerSecond * MaxTick
  /\ bootstrap # <<>>

\* the file was parsed and the clock minus its updated_at is within 86400000
LoadedFresh == loaded.kind = "json" /\ now - loaded.updated_at <= 86400000

\* C13: when the file exists and is not stale, _initiate_monitor calls
\* _request_data not once, sends no user or admin notification and leaves
\* the file as it was, and when it returns saved_time is the updated_at of
\* the file and known_tokens the set of its data list.
C13_LoadWithoutFetch ==
  (pc \in {"read_assign", "initiated"} /\ LoadedFresh) =>
    /\ ~requested
    /\ bootstrap = <<>>
    /\ NoUserMessage
    /\ admins = 0
    /\ writes = 0
    /\ file = loaded
    /\ pc = "initiated" =>
         /\ has_saved
         /\ saved_token_time = loaded.updated_at
         /\ saved_token_address = Range(loaded.data)
         /\ \A k \in Tokens :
              k \in saved_token_address <=>
                \E i \in 1..Len(file.data) : file.data[i] = k

C13_Witness ==
  /\ pc = "initiated"
  /\ LoadedFresh
  /\ now > StaleThreshold
  /\ Len(loaded.data) = NumTokens
  /\ saved_token_time = loaded.updated_at

\* C14 (as stated): in the loop of start_monitor saved_time and the
\* updated_at of the file never go below the values they had at the fetch
\* of the iteration, whatever the server returns, and a snapshot whose
\* updated_at is lower than saved_time is not handled as an update.
C14_SavedTimeNeverDecreases ==
  pre.set =>
    /\ saved_token_time >= pre.saved
    /\ file.updated_at >= pre.file.updated_at
    /\ (data.kind = "ok" /\ data.updated_at < pre.saved) =>
         pc \in {"compare", "sleep_wait"}

\* C15 (as stated): whenever the loop of start_monitor is about to fetch,
\* the file holds the saved_time and the known_tokens that are in memory.
C15_MemoryAndDiskAgree ==
  pc = "poll" =>
    /\ file.kind = "json"
    /\ file.updated_at = saved_token_time
    /\ Range(file.data) = saved_token_address

\* C16: in the loop of start_monitor known_tokens never loses an
\* identifier; a user notification is sent only for an identifier that was
\* not known at the fetch and has had none before, a reported identifier
\* is known from the merge of its iteration on, and so no identifier gets
\* more than one user notification in a run, whatever snapshots follow.
C16_AtMostOnce ==
  /\ [](\A k \in Tokens : users[k] <= 1)
  /\ [][InLoop => saved_token_address \subseteq saved_token_address']_vars
  /\ [][\A k \in Tokens :
          users'[k] # users[k] =>
            /\ users[k] = 0
            /\ users'[k] = 1
            /\ k \notin pre.known
            /\ k \in data.keys]_vars
  /\ [](\A k \in Tokens :
          users[k] = 1 =>
            \/ k \in saved_token_address
            \/ pc \in {"get_new", "handle"}
                 /\ k \in Range(newly_added_tokens))

C16_Witness ==
  /\ pc = "handle"
  /\ \E k \in data.keys : pre.users[k] = 1 /\ users[k] = 1
  /\ newly_added_tokens # <<>>
  /\ ~repeat

C16_WitnessGone ==
  /\ pc = "compare"
  /\ data.updated_at > prev_server_time
  /\ \E k \in Tokens : users[k] = 1 /\ k \notin data.keys

\* C17: at every point of a run every identifier in the persisted known
\* set, and every identifier in the known set in memory, was in the file
\* the run started on, or was seeded by a forced full refresh, or has had
\* a user notification; a write of the file in the loop persists only
\* identifiers that were so accounted for before the write.  The property
\* holds in every reachable state, so at every point where the process can
\* be stopped and started again on the file.
Accounted(k) ==
  \/ k \in startKeys
  \/ bootstrap # <<>> /\ k \in bootstrap[1]
  \/ users[k] >= 1

C17_NoSilentKnown ==
  /\ [](file.kind = "json" => \A k \in Range(file.data) : Accounted(k))
  /\ [](has_saved => \A k \in saved_token_address : Accounted(k))
  /\ [][(file' # file /\ file'.kind = "json") =>
          \A k \in Range(file'.data) : Accounted(k)]_vars

C17_Witness ==
  /\ pc = "save_admin"
  /\ InLoop
  /\ file.kind = "json"
  /\ \E k \in Range(file.data) :
       /\ k \notin startKeys
       /\ bootstrap # <<>> => k \notin bootstrap[1]
       /\ users[k] = 1
       /\ k \notin Range(pre.file.data)
  /\ \E k \in Range(file.data) : k \in startKeys /\ users[k] = 0

\* C18: under fair scheduling, once a fetch in the loop of start_monitor
\* has returned a snapshot whose updated_at is strictly greater than the
\* recorded saved_time, that snapshot is eventually processed: the
\* iteration reaches its end with every identifier of the snapshot that
\* was not known notified, all its identifiers in known_tokens, saved_time
\* equal to its updated_at, and both written to the file.
FetchedNewer ==
  /\ pc = "compare"
  /\ data.kind = "ok"
  /\ data.updated_at > saved_token_time

Processed ==
  /\ pc = "cycle_end"
  /\ data.kind = "ok"
  /\ saved_token_time = data.updated_at
  /\ saved_token_time > pre.saved
  /\ data.keys \subseteq saved_token_address
  /\ \A k \in data.keys \ pre.known : users[k] >= 1
  /\ file.kind = "json"
  /\ file.updated_at = data.updated_at
  /\ data.keys \subseteq Range(file.data)

====
